---- MODULE Spec2Model ----
(***************************************************************************)
(* Model of the KPX SMP telegram bots: the interactive bot                 *)
(* (smp_bot_interactive.py) and the scheduled bot (smp_information.py).    *)
(*                                                                         *)
(* Text is modelled as a tuple of one-character strings, so that strip(),  *)
(* lower(), the regular expressions of _parse_date, strptime/strftime and  *)
(* the substring test `x in str(col)` are computed character by character. *)
(* The Korean literals of the source are written with ASCII stand-ins      *)
(* (the module's strings are ASCII only):                                  *)
(*   '오늘' -> "oneul"   '이번주' -> "ibeonju"   '주간' -> "jugan"            *)
(*   '제주' -> "jejuko"  '최대' -> "MAX"  '최소' -> "MIN"  '가중평균' -> "AVG"  *)
(*   '안녕' -> "annyeong" '안녕하세요' -> "annyeonghaseyo" '헬로' -> "hello_ko"*)
(* and the emoji markers 🔴 🟡 🟢 are "high", "medium", "low".             *)
(*                                                                         *)
(* SpecFormat follows a request from its handler to the report that        *)
(* format_smp_data returns for the fetched table; SpecChunk follows the    *)
(* formatted message through the splitting and sending code; SpecPipeline  *)
(* follows one request step by step through the chat calls, the HTTP       *)
(* requests of fetch_smp_data and the sends; SpecMain follows main() of    *)
(* the two scripts with the scheduler and the Flask thread.                *)
(***************************************************************************)
EXTENDS Integers, Sequences, FiniteSets, TLC

VARIABLES
    df,           \* the table the crawler obtained for the request
    now,          \* datetime.now(): [y, m, d]
    pc,           \* position of the request: "idle", "replied"
    handler,      \* the handler that served the request
    date_filter,  \* date_filter argument of _send_smp_data / format_smp_data
    is_jeju,      \* is_jeju argument
    target_date,  \* what _send_smp_data passed to fetch_smp_data
    report,       \* the lines of the message format_smp_data returned
    message,      \* the text handed to the chunker
    max_length,   \* the chunker's limit
    parts,        \* the parts the chunker produced
    cpc,          \* the chunking run: "input", then "split", "replied" or "sent"
    bot,          \* the bot serving the request: "interactive", "scheduled"
    ppc,          \* position of the request in its pipeline
    http,         \* the HTTP requests fetch_smp_data issued, with their responses
    fetched,      \* what fetch_smp_data returned: "pending", "None", "df"
    picked,       \* the table of the document the frame was read from (0: none)
    events,       \* what the pipeline did for the request, in order
    nsent,        \* parts of the report handed to the chat transport so far
    escaped,      \* an exception left the handler / the job
    program,      \* the script started: "interactive", "scheduled"
    env_token,    \* TELEGRAM_BOT_TOKEN of the environment
    env_chat,     \* TELEGRAM_CHAT_ID of the environment
    mpc,          \* position of the main thread in main()
    constructed,  \* the bot object exists
    running,      \* executions of send_smp_report in progress
    nruns,        \* executions of send_smp_report started so far
    jobs,         \* the jobs registered with schedule
    due,          \* the Monday job is due and has not been run yet
    flask,        \* the Flask thread: "off", "starting", "serving"
    health        \* the path and the answer of the last health request

fvars == <<df, now, pc, handler, date_filter, is_jeju, target_date, report>>
cvars == <<message, max_length, parts, cpc>>
pvars == <<bot, ppc, http, fetched, picked, events, nsent, escaped>>
mvars == <<program, env_token, env_chat, mpc, constructed, running, nruns,
           jobs, due, flask, health>>
vars == <<df, now, pc, handler, date_filter, is_jeju, target_date, report,
          message, max_length, parts, cpc,
          bot, ppc, http, fetched, picked, events, nsent, escaped,
          program, env_token, env_chat, mpc, constructed, running, nruns,
          jobs, due, flask, health>>

(***************************************************************************)
(* Bounds of the model.                                                    *)
(***************************************************************************)
\* date columns of the server's window: at most this many (the site shows 7)
MaxCols == 7
\* hourly rows of a table (the site shows 24)
MaxHours == 2
\* lines of a message handed to the chunker
MaxLines == 4
\* the small limits tried on _split_message are 1..MaxLimit, and the short
\* lines of a message have 0..MaxLimit characters
MaxLimit == 3

(***************************************************************************)
(* Python values.                                                          *)
(***************************************************************************)
\* Python's None, distinct from every text (a text holds one-character items)
None == <<"<None>">>

\* `if x:` for an Optional[str]
Truthy(s) == s # None /\ s # <<>>

Digits == <<"0", "1", "2", "3", "4", "5", "6", "7", "8", "9">>

IsDigit(c) == \E i \in 1..10 : Digits[i] = c

DigitVal(c) == (CHOOSE i \in 1..10 : Digits[i] = c) - 1

\* int() of a text of digits
RECURSIVE ParseInt(_)
ParseInt(s) ==
    IF s = <<>> THEN 0
    ELSE 10 * ParseInt(SubSeq(s, 1, Len(s) - 1)) + DigitVal(s[Len(s)])

\* '%02d' % n
TwoDigits(n) == <<Digits[((n \div 10) % 10) + 1], Digits[(n % 10) + 1]>>

\* f"{year}" for a four-digit year
FourDigits(n) == TwoDigits(n \div 100) \o TwoDigits(n % 100)

\* str.strip(): leading and trailing blanks removed
RECURSIVE Strip(_)
Strip(s) ==
    IF s = <<>> THEN s
    ELSE IF s[1] = " " THEN Strip(Tail(s))
    ELSE IF s[Len(s)] = " " THEN Strip(SubSeq(s, 1, Len(s) - 1))
    ELSE s

Upper == <<"H", "I", "J", "E", "U", "T", "O", "D", "A", "Y", "W", "K">>
LowerOf == <<"h", "i", "j", "e", "u", "t", "o", "d", "a", "y", "w", "k">>

\* str.lower()
Lower(s) ==
    [i \in 1..Len(s) |->
        IF \E k \in 1..Len(Upper) : Upper[k] = s[i]
        THEN LowerOf[CHOOSE k \in 1..Len(Upper) : Upper[k] = s[i]]
        ELSE s[i]]

\* `sub in s`
Contains(sub, s) ==
    \E i \in 0..(Len(s) - Len(sub)) : SubSeq(s, i + 1, i + Len(sub)) = sub

\* seq[-n:]
LastN(seq, n) ==
    IF Len(seq) <= n THEN seq ELSE SubSeq(seq, Len(seq) - n + 1, Len(seq))

(***************************************************************************)
(* datetime                                                                *)
(***************************************************************************)
IsLeap(y) == (y % 4 = 0 /\ y % 100 # 0) \/ y % 400 = 0

DaysIn(y, m) ==
    IF m = 2 THEN (IF IsLeap(y) THEN 29 ELSE 28)
    ELSE IF m \in {4, 6, 9, 11} THEN 30 ELSE 31

\* datetime.strptime(s, '%Y-%m-%d') for s matching \d{4}-\d{2}-\d{2}:
\* ok = FALSE is the ValueError of an impossible date
strptime(s) ==
    LET y == ParseInt(SubSeq(s, 1, 4))
        m == ParseInt(SubSeq(s, 6, 7))
        d == ParseInt(SubSeq(s, 9, 10))
    IN  [ok |-> y >= 1 /\ m \in 1..12 /\ d >= 1 /\ d <= DaysIn(y, m),
         y |-> y, m |-> m, d |-> d]

\* dt.strftime('%m.%d')
strftime_md(dt) == TwoDigits(dt.m) \o <<".">> \o TwoDigits(dt.d)

(***************************************************************************)
(* Text literals of the source.                                            *)
(***************************************************************************)
T_oneul == <<"o", "n", "e", "u", "l">>
T_today == <<"t", "o", "d", "a", "y">>
T_ibeonju == <<"i", "b", "e", "o", "n", "j", "u">>
T_week == <<"w", "e", "e", "k">>
T_jugan == <<"j", "u", "g", "a", "n">>
T_jejuko == <<"j", "e", "j", "u", "k", "o">>
T_jeju == <<"j", "e", "j", "u">>
T_hi == <<"h", "i">>
T_hello == <<"h", "e", "l", "l", "o">>
T_annyeong == <<"a", "n", "n", "y", "e", "o", "n", "g">>
T_annyeonghaseyo ==
    <<"a", "n", "n", "y", "e", "o", "n", "g", "h", "a", "s", "e", "y", "o">>
T_hello_ko == <<"h", "e", "l", "l", "o", "_", "k", "o">>
L_MAX == <<"M", "A", "X">>
L_MIN == <<"M", "I", "N">>
L_AVG == <<"A", "V", "G">>

(***************************************************************************)
(* InteractiveSMPBot._parse_date                                           *)
(***************************************************************************)
\* re.match(r'^(\d{4}-\d{2}-\d{2})$', s)
MatchSingle(s) ==
    /\ Len(s) = 10
    /\ \A i \in {1, 2, 3, 4, 6, 7, 9, 10} : IsDigit(s[i])
    /\ s[5] = "-" /\ s[8] = "-"

\* re.match(r'^(\d{2})\.(\d{2})$', s)
MatchShort(s) ==
    /\ Len(s) = 5
    /\ \A i \in {1, 2, 4, 5} : IsDigit(s[i])
    /\ s[3] = "."

\* the YYYY-MM-DD text, or None
_parse_date(f, nw) ==
    LET s == Strip(f)
    IN  IF MatchSingle(s) THEN s
        ELSE IF MatchShort(s)
             THEN FourDigits(nw.y) \o <<"-">> \o SubSeq(s, 1, 2)
                  \o <<"-">> \o SubSeq(s, 4, 5)
        ELSE None

(***************************************************************************)
(* SMPCrawler._filter_dates (smp_bot_interactive.py). No code calls it.    *)
(* SMPCrawler has no _parse_date method (it is InteractiveSMPBot's), so    *)
(* line 310 raises AttributeError inside the outer try and the handler at  *)
(* 334-336 returns date_columns[-3:] for every filter that is neither a    *)
(* "today" nor a "week" keyword.                                           *)
(***************************************************************************)
_filter_dates(date_columns, f, nw) ==
    LET date_filter_lower == Lower(Strip(f))
        today_str == strftime_md(nw)
        filtered == SelectSeq(date_columns, LAMBDA col : Contains(today_str, col))
    IN  IF date_filter_lower \in {T_oneul, T_today}
        THEN (IF filtered # <<>> THEN filtered ELSE LastN(date_columns, 1))
        ELSE IF date_filter_lower \in {T_ibeonju, T_week, T_jugan}
        THEN date_columns
        ELSE LastN(date_columns, 3)

(***************************************************************************)
(* The DataFrame: cols are the date columns (df.columns[1:]); a row is its *)
(* label (column 0) and one cell per date column. A cell is a float, a     *)
(* text (object column) or NaN.                                            *)
(***************************************************************************)
NaN == [kind |-> "nan", v |-> 0, s |-> <<>>]
Num(n) == [kind |-> "float", v |-> n, s |-> <<>>]
Txt(t) == [kind |-> "str", v |-> 0, s |-> t]

\* fetch_smp_data returned None
NoneDf == [is_none |-> TRUE, cols |-> <<>>, rows |-> <<>>]

\* pd.notna(value)
pd_notna(value) == value.kind # "nan"

\* float(value): ok = FALSE is the ValueError of a text that is no number
float(value) ==
    IF value.kind = "float" THEN [ok |-> TRUE, v |-> value.v]
    ELSE IF value.s # <<>> /\ \A i \in 1..Len(value.s) : IsDigit(value.s[i])
         THEN [ok |-> TRUE, v |-> ParseInt(value.s)]
    ELSE [ok |-> FALSE, v |-> 0]

\* df.empty
Empty(d) == Len(d.rows) = 0

\* df.iloc[:, 0].astype(str).str.contains('h$', regex=True)
IsHourly(row) == row.label # <<>> /\ row.label[Len(row.label)] = "h"

\* df[df.iloc[:, 0] == label]
RowsLabelled(d, label) == SelectSeq(d.rows, LAMBDA row : row.label = label)

\* position of a column name in the frame
ColIndex(d, col) == CHOOSE i \in 1..Len(d.cols) : d.cols[i] = col

(***************************************************************************)
(* Report lines. A line is kept as what it says, not as its characters.    *)
(***************************************************************************)
Line(kind, col, slot, marker, value) ==
    [kind |-> kind, col |-> col, slot |-> slot, marker |-> marker, value |-> value]

Fixed(kind) == Line(kind, <<>>, <<>>, "", NaN)

\* an exception reached the enclosing try (184, 279-281)
Raised(lines) == \E i \in 1..Len(lines) : lines[i].kind = "raise"

(***************************************************************************)
(* SMPCrawler.format_smp_data (smp_bot_interactive.py)                     *)
(***************************************************************************)
\* Severity with `>=` for `>` at the upper threshold
Severity_ge(val_float) ==
    IF val_float >= 120 THEN "high"
    ELSE IF val_float > 90 THEN "medium"
    ELSE "low"

\* lines 260-265: the marker of a numeric value
Severity(val_float) ==
    IF val_float > 120 THEN "high"
    ELSE IF val_float > 90 THEN "medium"
    ELSE "low"

\* HourlyCell without the pd.notna test: a NaN cell gets a "nan" line
HourlyCell_nan_line(time_slot, date_col, value) ==
    IF float(value).ok /\ pd_notna(value)
    THEN <<Line("hour", date_col, time_slot, Severity(float(value).v), value)>>
    ELSE <<Line("hour", date_col, time_slot, "none", value)>>

\* lines 253-268: the line of one hourly row in one date column; a NaN cell
\* gets no line, a text that float() rejects gets a line without a marker
HourlyCell(time_slot, date_col, value) ==
    IF pd_notna(value)
    THEN (IF float(value).ok
          THEN <<Line("hour", date_col, time_slot, Severity(float(value).v), value)>>
          ELSE <<Line("hour", date_col, time_slot, "none", value)>>)
    ELSE <<>>

\* lines 252-268: for idx, row in hourly_data.iterrows()
RECURSIVE HourlyLines(_, _, _)
HourlyLines(hourly_data, ci, date_col) ==
    IF hourly_data = <<>> THEN <<>>
    ELSE HourlyCell(Head(hourly_data).label, date_col, Head(hourly_data).cells[ci])
         \o HourlyLines(Tail(hourly_data), ci, date_col)

\* lines 231-247: the statistics lines of one date column and the blank line
StatLines(d, ci, date_col) ==
    LET stat(label, kind) ==
            IF RowsLabelled(d, label) # <<>>
            THEN <<Line(kind, date_col, label, "", RowsLabelled(d, label)[1].cells[ci])>>
            ELSE <<>>
    IN  stat(L_MAX, "max") \o stat(L_MIN, "min") \o stat(L_AVG, "avg")
        \o <<Fixed("blank")>>

\* lines 225-270: the sections of the selected date columns
RECURSIVE Sections(_, _, _)
Sections(d, hourly_data, date_columns) ==
    IF date_columns = <<>> THEN <<>>
    ELSE LET date_col == Head(date_columns)
             ci == ColIndex(d, date_col)
         IN  <<Line("header", date_col, <<>>, "", NaN), Fixed("dash")>>
             \o StatLines(d, ci, date_col)
             \o HourlyLines(hourly_data, ci, date_col)
             \o <<Fixed("blank")>>
             \o Sections(d, hourly_data, Tail(date_columns))

\* SelectColumns with the slice of the default branch forgotten
SelectColumns_no_slice(d, f) == d.cols

\* SelectColumns with the filter ignored
SelectColumns_always_slice(d, f) == LastN(d.cols, 3)

\* SelectColumns with the date filter applied as _filter_dates would
SelectColumns_filtered(d, f) ==
    IF Truthy(f) THEN LastN(d.cols, 1) ELSE LastN(d.cols, 3)

\* lines 209-220: the date columns to show
SelectColumns(d, f) ==
    IF Truthy(f) THEN d.cols ELSE LastN(d.cols, 3)

\* the lines of the returned message
format_smp_data(d, f, jeju) ==
    LET head == <<Line("title", <<>>, <<>>, IF jeju THEN "jeju" ELSE "land", NaN),
                  Fixed("date"), Fixed("rule"), Fixed("blank")>>
        hourly_data == SelectSeq(d.rows, IsHourly)
        body == Sections(d, hourly_data, SelectColumns(d, f))
    IN  IF d.is_none \/ Empty(d) THEN <<Fixed("nodata")>>
        ELSE IF hourly_data = <<>> THEN head \o <<Fixed("nohourly")>>
        ELSE IF Raised(body) THEN <<Fixed("error")>>
        ELSE head \o body \o <<Fixed("rule"), Fixed("source"), Fixed("time")>>

(***************************************************************************)
(* SMPCrawler.format_smp_data (smp_information.py)                         *)
(***************************************************************************)
\* lines 232-237
info_Severity(val_float) ==
    IF val_float > 120 THEN "high"
    ELSE IF val_float > 90 THEN "medium"
    ELSE "low"

\* lines 225-240
info_HourlyCell(time_slot, date_col, value) ==
    IF pd_notna(value)
    THEN (IF float(value).ok
          THEN <<Line("hour", date_col, time_slot, info_Severity(float(value).v), value)>>
          ELSE <<Line("hour", date_col, time_slot, "none", value)>>)
    ELSE <<>>

\* lines 224-240
RECURSIVE info_HourlyLines(_, _, _)
info_HourlyLines(hourly_data, ci, date_col) ==
    IF hourly_data = <<>> THEN <<>>
    ELSE info_HourlyCell(Head(hourly_data).label, date_col, Head(hourly_data).cells[ci])
         \o info_HourlyLines(Tail(hourly_data), ci, date_col)

\* lines 220-240: every date column is shown
RECURSIVE info_Sections(_, _, _)
info_Sections(d, hourly_data, recent_dates) ==
    IF recent_dates = <<>> THEN <<>>
    ELSE LET date_col == Head(recent_dates)
         IN  <<Fixed("blank"), Line("header", date_col, <<>>, "", NaN), Fixed("dash")>>
             \o info_HourlyLines(hourly_data, ColIndex(d, date_col), date_col)
             \o info_Sections(d, hourly_data, Tail(recent_dates))

\* lines 184-200: one summary block (a caption, then one line per date column)
info_Summary(d, label, kind) ==
    <<Fixed("blank"), Fixed(kind)>>
    \o (IF RowsLabelled(d, label) # <<>>
        THEN [i \in 1..Len(d.cols) |->
                 Line(kind, d.cols[i], label, "", RowsLabelled(d, label)[1].cells[i])]
        ELSE <<>>)

info_format_smp_data(d) ==
    LET head == <<Fixed("title"), Fixed("date"), Fixed("rule"), Fixed("blank")>>
        summary ==
            <<Fixed("summary")>>
            \o (IF RowsLabelled(d, L_MAX) # <<>>
                THEN info_Summary(d, L_MAX, "max") \o info_Summary(d, L_MIN, "min")
                     \o info_Summary(d, L_AVG, "avg")
                ELSE <<>>)
            \o <<Fixed("blank"), Fixed("rule"), Fixed("blank"),
                 Fixed("detail"), Fixed("blank")>>
        hourly_data == SelectSeq(d.rows, IsHourly)
        body == IF hourly_data # <<>>
                THEN info_Sections(d, hourly_data, d.cols)
                ELSE <<Fixed("nohourly")>>
    IN  IF d.is_none \/ Empty(d) THEN head \o <<Fixed("nodata")>>
        ELSE IF Raised(body) THEN <<Fixed("error")>>
        ELSE head \o summary \o body
             \o <<Fixed("blank"), Fixed("rule"), Fixed("source"), Fixed("time")>>

(***************************************************************************)
(* send_smp_report's date arithmetic (smp_information.py 362-372)          *)
(***************************************************************************)
\* days of the months of year y before month m
RECURSIVE DaysBefore(_, _)
DaysBefore(y, m) == IF m = 1 THEN 0 ELSE DaysBefore(y, m - 1) + DaysIn(y, m - 1)

\* date.weekday(): Monday is 0 (1 January of year 1 is a Monday)
weekday(dt) ==
    LET py == dt.y - 1
        ordinal == 365 * py + (py \div 4) - (py \div 100) + (py \div 400)
                   + DaysBefore(dt.y, dt.m) + dt.d
    IN  (ordinal + 6) % 7

\* dt - timedelta(days=1)
PrevDay(dt) ==
    IF dt.d > 1 THEN [y |-> dt.y, m |-> dt.m, d |-> dt.d - 1]
    ELSE IF dt.m > 1 THEN [y |-> dt.y, m |-> dt.m - 1, d |-> DaysIn(dt.y, dt.m - 1)]
    ELSE [y |-> dt.y - 1, m |-> 12, d |-> 31]

\* dt.strftime('%Y-%m-%d')
strftime_ymd(dt) ==
    FourDigits(dt.y) \o <<"-">> \o TwoDigits(dt.m) \o <<"-">> \o TwoDigits(dt.d)

(***************************************************************************)
(* The inputs: the table the site serves, the clock, the user's text.      *)
(***************************************************************************)
\* the display string of the i-th day of the served window (09.24, 09.25, ...)
Col(i) ==
    IF 23 + i <= 30 THEN strftime_md([m |-> 9, d |-> 23 + i])
    ELSE strftime_md([m |-> 10, d |-> i - 7])

CellValues ==
    <<Num(50), Num(90), Num(91), Num(120), Num(121), Num(150),
      Txt(<<"-">>), Txt(<<"9", "5">>), NaN>>

\* the cell of hourly row r in the day-th day, for a table of the given seed
CellAt(seed, r, day) ==
    CellValues[((3 * seed + 2 * (r - 1) + day) % Len(CellValues)) + 1]

Table(start, n, nh, seed, agg) ==
    LET hourly == [r \in 1..nh |->
                     [label |-> <<Digits[r + 1], "h">>,
                      cells |-> [c \in 1..n |-> CellAt(seed, r, start + c - 1)]]]
        stat(label, val) == [label |-> label, cells |-> [c \in 1..n |-> Num(val)]]
    IN  [is_none |-> FALSE,
         cols |-> [c \in 1..n |-> Col(start + c - 1)],
         rows |-> hourly \o (IF agg THEN <<stat(L_MAX, 150), stat(L_MIN, 50),
                                           stat(L_AVG, 100)>>
                             ELSE <<>>)]

Windows == { w \in (1..MaxCols) \X (0..MaxCols) : w[1] + w[2] - 1 <= MaxCols }

Tables ==
    { Table(w[1], w[2], nh, seed, agg) :
        w \in Windows, nh \in 0..MaxHours,
        seed \in 0..2, agg \in BOOLEAN }

Todays ==
    { [y |-> 2025, m |-> 9, d |-> 29], [y |-> 2025, m |-> 9, d |-> 30],
      [y |-> 2025, m |-> 10, d |-> 2] }

UserInputs ==
    { <<"2", "0", "2", "5", "-", "0", "9", "-", "2", "4">>,
      <<"2", "0", "2", "5", "-", "1", "0", "-", "0", "5">>,
      <<"2", "0", "2", "5", "-", "0", "9", "-", "3", "1">>,
      <<" ", "0", "9", ".", "2", "4">>,
      <<"0", "9", ".", "3", "0">>,
      T_today, <<"W", "e", "e", "k">>, T_hi, <<"J", "E", "J", "U">>,
      <<"a", "b", "c">>, <<" ", " ">> }

(***************************************************************************)
(* The handlers. The request is served in one step: the table df is what   *)
(* fetch_smp_data returned for it (NoneDf when the fetch failed).          *)
(***************************************************************************)
\* InteractiveSMPBot._send_smp_data (557-620)
_send_smp_data(h, f, jeju) ==
    /\ pc = "idle"
    /\ pc' = "replied"
    /\ handler' = h
    /\ date_filter' = f
    /\ is_jeju' = jeju
    /\ target_date' = IF Truthy(f) THEN _parse_date(f, now) ELSE None
    /\ report' = IF df.is_none THEN <<Fixed("fetch_failed")>>
                 ELSE format_smp_data(df, f, jeju)
    /\ UNCHANGED <<df, now>>
    /\ UNCHANGED cvars
    /\ UNCHANGED <<pvars, mvars>>

\* InteractiveSMPBot.smp_command (458-464)
smp_command == _send_smp_data("smp_command", None, FALSE)

\* InteractiveSMPBot.today_command (466-472)
today_command == _send_smp_data("today_command", T_oneul, FALSE)

\* InteractiveSMPBot.week_command (474-480)
week_command == _send_smp_data("week_command", T_ibeonju, FALSE)

\* InteractiveSMPBot.jeju_command (482-488)
jeju_command == _send_smp_data("jeju_command", T_jejuko, TRUE)

greetings == {T_annyeong, T_annyeonghaseyo, T_hi, T_hello, T_hello_ko}

\* InteractiveSMPBot.handle_message (490-517)
handle_message ==
    \E text \in UserInputs :
        LET user_input == Strip(text)
        IN  IF Lower(user_input) \in greetings
            THEN /\ pc = "idle"
                 /\ pc' = "replied"
                 /\ handler' = "handle_message"
                 /\ date_filter' = None
                 /\ is_jeju' = FALSE
                 /\ target_date' = None
                 /\ report' = <<Fixed("greeting")>>
                 /\ UNCHANGED <<df, now>>
                 /\ UNCHANGED cvars
                 /\ UNCHANGED <<pvars, mvars>>
            ELSE IF Lower(user_input) \in {T_jejuko, T_jeju}
            THEN _send_smp_data("handle_message", None, TRUE)
            ELSE _send_smp_data("handle_message", user_input, FALSE)

\* SMPBot.send_smp_report (351-412), the scheduled bot's run
send_smp_report ==
    LET target == IF weekday(now) = 0 THEN strftime_ymd(PrevDay(now)) ELSE None
        week_info == IF Truthy(target)
                     THEN <<Fixed("week_info"), Fixed("period"), Fixed("rule"),
                            Fixed("blank")>>
                     ELSE <<>>
    IN  /\ pc = "idle"
        /\ pc' = "replied"
        /\ handler' = "send_smp_report"
        /\ date_filter' = None
        /\ is_jeju' = FALSE
        /\ target_date' = target
        /\ report' = IF df.is_none THEN <<Fixed("fetch_failed")>>
                     ELSE week_info \o info_format_smp_data(df)
        /\ UNCHANGED <<df, now>>
        /\ UNCHANGED cvars
        /\ UNCHANGED <<pvars, mvars>>

\* the next update, or the next scheduled run, finds the process as it was
next_request ==
    /\ pc = "replied"
    /\ pc' = "idle"
    /\ handler' = "none"
    /\ date_filter' = None
    /\ is_jeju' = FALSE
    /\ target_date' = None
    /\ report' = <<>>
    /\ UNCHANGED <<df, now>>
    /\ UNCHANGED cvars
    /\ UNCHANGED <<pvars, mvars>>

InitFormat ==
    /\ df \in Tables \cup {NoneDf}
    /\ now \in Todays
    /\ pc = "idle"
    /\ handler = "none"
    /\ date_filter = None
    /\ is_jeju = FALSE
    /\ target_date = None
    /\ report = <<>>
    /\ message = <<>>
    /\ max_length = 0
    /\ parts = <<>>
    /\ cpc = "off"
    /\ bot = "none"
    /\ ppc = "off"
    /\ http = <<>>
    /\ fetched = "pending"
    /\ picked = 0
    /\ events = <<>>
    /\ nsent = 0
    /\ escaped = FALSE
    /\ program = "none"
    /\ env_token = "<unset>"
    /\ env_chat = "<unset>"
    /\ mpc = "off"
    /\ constructed = FALSE
    /\ running = 0
    /\ nruns = 0
    /\ jobs = {}
    /\ due = FALSE
    /\ flask = "off"
    /\ health = [path |-> "none", status |-> "none"]

NextFormat ==
    \/ smp_command
    \/ today_command
    \/ week_command
    \/ jeju_command
    \/ handle_message
    \/ send_smp_report
    \/ next_request

SpecFormat == InitFormat /\ [][NextFormat]_vars

(***************************************************************************)
(* What a report shows.                                                    *)
(***************************************************************************)
\* format_smp_data reached its end (no early return, no error message)
Built(rep) == rep # <<>> /\ rep[Len(rep)].kind = "time"

\* the date columns that have a section in the report, in order
ShownColumns(rep) ==
    LET heads == SelectSeq(rep, LAMBDA l : l.kind = "header")
    IN  [i \in 1..Len(heads) |-> heads[i].col]

\* the hourly lines of one date column, in order
HourLinesOf(rep, col) == SelectSeq(rep, LAMBDA l : l.kind = "hour" /\ l.col = col)

Interactive ==
    handler \in {"smp_command", "today_command", "week_command", "jeju_command",
                 "handle_message"}

\* the filter is a date for _parse_date
IsDateFilter(f) == Truthy(f) /\ _parse_date(f, now) # None

\* the date's month.day display substring, <<>> for an impossible date
MonthDay(f) ==
    IF strptime(_parse_date(f, now)).ok
    THEN strftime_md(strptime(_parse_date(f, now)))
    ELSE <<>>

Matching(cols, sub) == SelectSeq(cols, LAMBDA col : Contains(sub, col))

IsTodayFilter(f) == Truthy(f) /\ Lower(Strip(f)) \in {T_oneul, T_today}

IsWeekFilter(f) == Truthy(f) /\ Lower(Strip(f)) \in {T_ibeonju, T_week, T_jugan}

Week7 == [i \in 1..7 |-> Col(i)]

C2_TodayShowsToday ==
    (pc = "replied" /\ Interactive /\ Built(report) /\ IsTodayFilter(date_filter))
    => ShownColumns(report) =
         IF Matching(df.cols, strftime_md(now)) # <<>>
         THEN Matching(df.cols, strftime_md(now))
         ELSE LastN(df.cols, 1)

\* C3: without a filter the report shows the last 3 date columns of a table
\* with more than 3, and all of them otherwise, in the table's order.
C3_NoFilterLastThree ==
    (pc = "replied" /\ Interactive /\ Built(report) /\ date_filter = None)
    => ShownColumns(report) =
         IF Len(df.cols) > 3
         THEN SubSeq(df.cols, Len(df.cols) - 2, Len(df.cols))
         ELSE df.cols

C3_Witness ==
    /\ pc = "replied" /\ handler = "smp_command" /\ date_filter = None
    /\ df.cols = Week7
    /\ ShownColumns(report) = <<Col(5), Col(6), Col(7)>>

\* C4: for the "this week" filter the report shows all date columns of the
\* table, in unchanged order.
C4_WeekShowsAll ==
    (pc = "replied" /\ Interactive /\ Built(report) /\ IsWeekFilter(date_filter))
    => /\ ShownColumns(report) = df.cols
       /\ Len(ShownColumns(report)) = Len(df.cols)

C4_Witness ==
    /\ pc = "replied" /\ handler = "week_command" /\ date_filter = T_ibeonju
    /\ df.cols = Week7
    /\ ShownColumns(report) = Week7

\* the reply is a report of format_smp_data (either bot)
Formatted ==
    /\ pc = "replied"
    /\ report # <<>>
    /\ report[1].kind \notin {"greeting", "fetch_failed"}

HourlyRows(d) == SelectSeq(d.rows, IsHourly)

\* the marker the thresholds give a cell: none for a cell that is no number
MarkerOf(value) ==
    IF ~float(value).ok THEN "none"
    ELSE IF float(value).v > 120 THEN "high"
    ELSE IF float(value).v > 90 THEN "medium"
    ELSE "low"

C10_OneLinePerHourlyRow ==
    Formatted =>
      \A k \in 1..Len(ShownColumns(report)) :
         Len(HourLinesOf(report, ShownColumns(report)[k])) = Len(HourlyRows(df))

\* the hourly rows whose cell in the column is present
PresentRows(d, col) ==
    SelectSeq(HourlyRows(d), LAMBDA row : pd_notna(row.cells[ColIndex(d, col)]))

\* C10 (amended): every shown date column has exactly one line per hourly row
\* whose cell in that column is present, in row order; a row whose cell is
\* missing (NaN) gets no line; a present non-numeric cell gets an unmarked line.
C10_OneLinePerPresentCell ==
    Formatted =>
      \A k \in 1..Len(ShownColumns(report)) :
         LET col == ShownColumns(report)[k]
             lines == HourLinesOf(report, col)
             rows == PresentRows(df, col)
         IN  /\ Len(lines) = Len(rows)
             /\ \A i \in 1..Len(lines) :
                   /\ lines[i].slot = rows[i].label
                   /\ lines[i].value = rows[i].cells[ColIndex(df, col)]
                   /\ ~float(lines[i].value).ok => lines[i].marker = "none"

\* a shown column in which a row's cell is missing and has no line
C10_Witness ==
    /\ Formatted
    /\ \E k \in 1..Len(ShownColumns(report)) :
          LET col == ShownColumns(report)[k]
          IN  /\ \E r \in 1..Len(HourlyRows(df)) :
                    ~pd_notna(HourlyRows(df)[r].cells[ColIndex(df, col)])
              /\ Len(HourLinesOf(report, col)) < Len(HourlyRows(df))
              /\ Len(HourLinesOf(report, col)) > 0

(***************************************************************************)
(* The chunker. Here a text is a sequence of runs: 0 is the character      *)
(* '\n', k > 0 is a run of k characters none of which is '\n'. Only the    *)
(* place of the newlines and the lengths matter to the code.               *)
(***************************************************************************)
NL == 0

\* len(text)
RECURSIVE TextLen(_)
TextLen(t) ==
    IF t = <<>> THEN 0
    ELSE (IF Head(t) = NL THEN 1 ELSE Head(t)) + TextLen(Tail(t))

\* text.split('\n')
RECURSIVE split(_)
split(t) ==
    IF \A i \in 1..Len(t) : t[i] # NL THEN <<t>>
    ELSE LET i == CHOOSE j \in 1..Len(t) :
                     t[j] = NL /\ \A k \in 1..(j - 1) : t[k] # NL
         IN  <<SubSeq(t, 1, i - 1)>> \o split(SubSeq(t, i + 1, Len(t)))

\* smp_bot_interactive.py:601
MaxLength == 4000

\* smp_information.py:286
info_MaxLength == 4000

\* the loop of _split_message with the overflowing line dropped
RECURSIVE SplitLoop_drop(_, _, _, _)
SplitLoop_drop(lines, ps, current_part, limit) ==
    IF lines = <<>>
    THEN (IF current_part # <<>> THEN Append(ps, current_part) ELSE ps)
    ELSE IF TextLen(current_part) + TextLen(Head(lines)) + 1 > limit
         THEN SplitLoop_drop(Tail(lines), Append(ps, current_part), <<>>, limit)
         ELSE SplitLoop_drop(Tail(lines), ps, current_part \o Head(lines) \o <<NL>>,
                             limit)

\* the loop of _split_message with the newline left out of the test
RECURSIVE SplitLoop_no_newline(_, _, _, _)
SplitLoop_no_newline(lines, ps, current_part, limit) ==
    IF lines = <<>>
    THEN (IF current_part # <<>> THEN Append(ps, current_part) ELSE ps)
    ELSE IF TextLen(current_part) + TextLen(Head(lines)) > limit
         THEN SplitLoop_no_newline(Tail(lines), Append(ps, current_part),
                                   Head(lines) \o <<NL>>, limit)
         ELSE SplitLoop_no_newline(Tail(lines), ps,
                                   current_part \o Head(lines) \o <<NL>>, limit)

\* lines 637-645: the loop over the lines and the final append
RECURSIVE SplitLoop(_, _, _, _)
SplitLoop(lines, ps, current_part, limit) ==
    IF lines = <<>>
    THEN (IF current_part # <<>> THEN Append(ps, current_part) ELSE ps)
    ELSE IF TextLen(current_part) + TextLen(Head(lines)) + 1 > limit
         THEN SplitLoop(Tail(lines), Append(ps, current_part),
                        Head(lines) \o <<NL>>, limit)
         ELSE SplitLoop(Tail(lines), ps, current_part \o Head(lines) \o <<NL>>, limit)

_split_message_drop(msg, limit) == SplitLoop_drop(split(msg), <<>>, <<>>, limit)

_split_message_no_newline(msg, limit) ==
    SplitLoop_no_newline(split(msg), <<>>, <<>>, limit)

\* InteractiveSMPBot._split_message (622-647)
_split_message(msg, limit) == SplitLoop(split(msg), <<>>, <<>>, limit)

\* ReplyParts with `>=` for `>` in the test of line 602
ReplyParts_ge(msg) ==
    IF TextLen(msg) >= MaxLength THEN _split_message(msg, MaxLength) ELSE <<msg>>

\* _send_smp_data 600-613: the texts replied, without their "[i/N]" prefix
ReplyParts(msg) ==
    IF TextLen(msg) > MaxLength THEN _split_message(msg, MaxLength) ELSE <<msg>>

\* TelegramBot.send_message 292-318: the loop over the lines, each
\* current_message sent as one part
RECURSIVE info_SendLoop(_, _, _)
info_SendLoop(lines, sent, current_message) ==
    IF lines = <<>>
    THEN (IF current_message # <<>> THEN Append(sent, current_message) ELSE sent)
    ELSE IF TextLen(current_message) + TextLen(Head(lines)) + 1 > info_MaxLength
         THEN info_SendLoop(Tail(lines), Append(sent, current_message),
                            Head(lines) \o <<NL>>)
         ELSE info_SendLoop(Tail(lines), sent,
                            current_message \o Head(lines) \o <<NL>>)

\* TelegramBot.send_message 286-326: the texts sent, without "[Part n]"
info_SentParts(msg) ==
    IF TextLen(msg) > info_MaxLength
    THEN info_SendLoop(split(msg), <<>>, <<>>)
    ELSE <<msg>>

(***************************************************************************)
(* The chunking runs: the message is any text format_smp_data may have     *)
(* returned.                                                               *)
(***************************************************************************)
LineLens == (0..MaxLimit) \cup {49, 999, 3950}

LineOf(k) == IF k = 0 THEN <<>> ELSE <<k>>

RECURSIVE Join(_)
Join(lens) ==
    IF Len(lens) = 1 THEN LineOf(lens[1])
    ELSE LineOf(lens[1]) \o <<NL>> \o Join(Tail(lens))

Messages ==
    UNION { { Join(lens) : lens \in [1..n -> LineLens] } : n \in 1..MaxLines }

Limits == (1..MaxLimit) \cup {MaxLength}

\* a call of _split_message(message, max_length)
split_message ==
    /\ cpc = "input"
    /\ cpc' = "split"
    /\ parts' = _split_message(message, max_length)
    /\ UNCHANGED <<message, max_length>>
    /\ UNCHANGED fvars
    /\ UNCHANGED <<pvars, mvars>>

\* _send_smp_data 600-613 on the formatted message
reply_message ==
    /\ cpc = "input"
    /\ cpc' = "replied"
    /\ max_length' = MaxLength
    /\ parts' = ReplyParts(message)
    /\ UNCHANGED message
    /\ UNCHANGED fvars
    /\ UNCHANGED <<pvars, mvars>>

\* TelegramBot.send_message on the formatted message
send_message ==
    /\ cpc = "input"
    /\ cpc' = "sent"
    /\ max_length' = info_MaxLength
    /\ parts' = info_SentParts(message)
    /\ UNCHANGED message
    /\ UNCHANGED fvars
    /\ UNCHANGED <<pvars, mvars>>

InitChunk ==
    /\ message \in Messages
    /\ max_length \in Limits
    /\ parts = <<>>
    /\ cpc = "input"
    /\ df = NoneDf
    /\ now = [y |-> 2025, m |-> 9, d |-> 29]
    /\ pc = "off"
    /\ handler = "none"
    /\ date_filter = None
    /\ is_jeju = FALSE
    /\ target_date = None
    /\ report = <<>>
    /\ bot = "none"
    /\ ppc = "off"
    /\ http = <<>>
    /\ fetched = "pending"
    /\ picked = 0
    /\ events = <<>>
    /\ nsent = 0
    /\ escaped = FALSE
    /\ program = "none"
    /\ env_token = "<unset>"
    /\ env_chat = "<unset>"
    /\ mpc = "off"
    /\ constructed = FALSE
    /\ running = 0
    /\ nruns = 0
    /\ jobs = {}
    /\ due = FALSE
    /\ flask = "off"
    /\ health = [path |-> "none", status |-> "none"]

NextChunk ==
    \/ split_message
    \/ reply_message
    \/ send_message

SpecChunk == InitChunk /\ [][NextChunk]_vars

(***************************************************************************)
(* What the parts hold.                                                    *)
(***************************************************************************)
\* the message went through the line loop (it was not sent as it is)
WasSplit ==
    \/ cpc = "split"
    \/ cpc \in {"replied", "sent"} /\ TextLen(message) > max_length

\* the lines of a part whose every line ends with a newline
TermLines(part) == SubSeq(split(part), 1, Len(split(part)) - 1)

RECURSIVE PartsLines(_)
PartsLines(ps) ==
    IF ps = <<>> THEN <<>> ELSE TermLines(Head(ps)) \o PartsLines(Tail(ps))

\* C5: the parts, joined in order, are the report's lines: every line of the
\* report is in exactly one part, whole, in the original order, and no line
\* is dropped, duplicated or added (a report that is not split is sent as it
\* is).
C5_PartsRejoin ==
    cpc # "input" =>
      IF WasSplit
      THEN /\ \A i \in 1..Len(parts) :
                 parts[i] = <<>> \/ parts[i][Len(parts[i])] = NL
           /\ PartsLines(parts) = split(message)
      ELSE parts = <<message>>

\* a report of 4 lines split into 3 parts
C5_Witness ==
    /\ cpc = "split"
    /\ Len(split(message)) = 4
    /\ Len(parts) = 3
    /\ \A i \in 1..3 : parts[i] # <<>>

\* the part holds one line only
SingleLine(part) == part # <<>> /\ Len(TermLines(part)) = 1

\* C6 (as stated): each part has at most max_length characters, except a
\* part that is a single line which alone has more than max_length.
C6_PartsWithinLimit ==
    (cpc # "input" /\ WasSplit) =>
      \A i \in 1..Len(parts) :
         \/ TextLen(parts[i]) <= max_length
         \/ SingleLine(parts[i]) /\ TextLen(TermLines(parts[i])[1]) > max_length

\* C6 (amended): each part has at most max_length characters, except a part
\* that is a single line of max_length characters or more (the part holds
\* the line and its newline).
C6_PartsWithinLimitOrLongLine ==
    cpc # "input" =>
      \A i \in 1..Len(parts) :
         \/ TextLen(parts[i]) <= max_length
         \/ WasSplit /\ SingleLine(parts[i])
            /\ TextLen(TermLines(parts[i])[1]) >= max_length

\* a part of one line of exactly max_length characters: max_length + 1 long
C6_Witness ==
    /\ cpc = "split"
    /\ \E i \in 1..Len(parts) :
          /\ SingleLine(parts[i])
          /\ TextLen(TermLines(parts[i])[1]) = max_length
          /\ TextLen(parts[i]) = max_length + 1

\* C7: a report of at most max_length characters (exactly max_length
\* included) goes out as exactly one part, the report itself.
C7_FittingReportOnePart ==
    (cpc \in {"replied", "sent"} /\ TextLen(message) <= max_length) =>
      /\ Len(parts) = 1
      /\ parts[1] = message

\* a report of exactly 4000 characters replied as one part
C7_Witness ==
    /\ cpc = "replied"
    /\ TextLen(message) = MaxLength
    /\ Len(split(message)) > 1
    /\ Len(parts) = 1

\* the characters of the first k lines, each with its newline
RECURSIVE Cumulative(_, _)
Cumulative(lines, k) ==
    IF k = 0 THEN 0 ELSE Cumulative(lines, k - 1) + TextLen(lines[k]) + 1

\* the first line that does not fit in the first part
FirstOverflow(lines, limit) ==
    CHOOSE k \in 1..Len(lines) :
        /\ Cumulative(lines, k) > limit
        /\ \A j \in 1..(k - 1) : Cumulative(lines, j) <= limit

BeginsWith(part, line) ==
    Len(part) > Len(line) /\ SubSeq(part, 1, Len(line) + 1) = line \o <<NL>>

ScenarioD == cpc # "input" /\ TextLen(message) = 5000 /\ max_length = 4000

\* C8 (as stated): a report of 5000 characters chunked with limit 4000 gives
\* exactly 2 parts, the second beginning with the first line that would have
\* overflowed the first part.
C8_TwoParts ==
    ScenarioD =>
      /\ Len(parts) = 2
      /\ BeginsWith(parts[2], split(message)[FirstOverflow(split(message), 4000)])

\* C8 (amended): a report of 5000 characters chunked with limit 4000 gives
\* at least 2 parts, the second beginning with the first line that would have
\* overflowed the first part; the parts are exactly 2 if and only if that
\* line is the last one or the lines from it to the end, with their
\* newlines, have at most 4000 characters.
C8_AtLeastTwoParts ==
    ScenarioD =>
      LET lines == split(message)
          k == FirstOverflow(lines, 4000)
      IN  /\ Len(parts) >= 2
          /\ BeginsWith(parts[2], lines[k])
          /\ Len(parts) = 2 <=>
               \/ k = Len(lines)
               \/ Cumulative(lines, Len(lines)) - Cumulative(lines, k - 1) <= 4000

\* the report of lines 49, 3950 and 999 characters long gives 3 parts
C8_Witness ==
    /\ ScenarioD
    /\ message = <<49, NL, 3950, NL, 999>>
    /\ Len(parts) = 3

(***************************************************************************)
(* The pipeline of one request, step by step: the calls of the chat        *)
(* transport, the HTTP requests of fetch_smp_data with the responses the   *)
(* server may give, the lookup of the table, and the sends of the report.  *)
(* A call of the chat transport (reply_text, edit_text, delete,            *)
(* Bot.send_message) either is accepted or raises.                         *)
(***************************************************************************)
\* a response: a status code, or the exception requests raises
Outcomes == {"200", "500", "timeout", "connection_error"}

\* the <input name="_csrf"> of the page: missing, without value, with value
TokenFields == {"absent", "no_value", "present"}

TokenValue == "tok"

\* most <table> elements a fetched document holds
MaxTables == 2

\* a <table>: whether its class has conTable, whether pd.read_html reads it
TableElements == [cls : BOOLEAN, readable : BOOLEAN]

Documents == UNION { [1..n -> TableElements] : n \in 0..MaxTables }

\* requests.get / session.get / session.post raise on these (timeout=30)
Raises(outcome) == outcome \in {"timeout", "connection_error"}

\* response.raise_for_status() (interactive 143, information 111)
raise_for_status(outcome) == outcome # "200"

\* csrf_token (interactive 115-119, information 85-89)
csrf_token_always_empty(field) == ""

csrf_token(field) == IF field = "present" THEN TokenValue ELSE ""

\* soup.find('table', {'class': 'conTable'}): the first such table, 0 if none
find_conTable(doc) ==
    IF \E i \in 1..Len(doc) : doc[i].cls
    THEN CHOOSE i \in 1..Len(doc) :
            doc[i].cls /\ \A j \in 1..(i - 1) : ~doc[j].cls
    ELSE 0

\* soup.find('table'): the first table, 0 if none
find_table(doc) == IF doc = <<>> THEN 0 ELSE 1

\* the table looked up: interactive 151-155 has no second lookup,
\* information 119-128 falls back to the first table
extract_table(b, doc) ==
    IF find_conTable(doc) # 0 THEN find_conTable(doc)
    ELSE IF b = "scheduled" THEN find_table(doc)
    ELSE 0

\* a request of the log
Request(method, url, issue_date, csrf, outcome, field, doc) ==
    [method |-> method, url |-> url, issue_date |-> issue_date, csrf |-> csrf,
     outcome |-> outcome, token |-> field, doc |-> doc]

\* an entry of the pipeline's log; ok is FALSE when the transport raised
Event(op, ok) == [op |-> op, ok |-> ok]

\* what is left alone by every step of the pipeline
ovars == <<df, pc, handler, report, cpc, mvars>>

\* the return of fetch_smp_data after the response that carries the table:
\* interactive 143-170, information 111-142
FetchReturn(outcome, doc) ==
    LET failed == Raises(outcome) \/ raise_for_status(outcome)
        table == IF failed THEN 0 ELSE extract_table(bot, doc)
        read == table # 0 /\ doc[table].readable
    IN  /\ fetched' = IF read THEN "df" ELSE "None"
        /\ picked' = table
        /\ events' = IF failed THEN events
                     ELSE Append(events, Event("extract", TRUE))
        /\ ppc' = "fetched"

\* session.get(base_url) for the CSRF token (interactive 107-119,
\* information 77-89): its status is not looked at
fetch_token_get ==
    /\ ppc = "fetch"
    /\ Truthy(target_date)
    /\ \E outcome \in Outcomes, field \in TokenFields :
        /\ Raises(outcome) => field = "absent"
        /\ http' = Append(http, Request("GET", "base_url", None, "", outcome,
                                         field, <<>>))
        /\ IF Raises(outcome)
           THEN fetched' = "None" /\ ppc' = "fetched"
           ELSE fetched' = fetched /\ ppc' = "post"
    /\ UNCHANGED <<bot, picked, events, nsent, escaped>>
    /\ UNCHANGED <<now, date_filter, is_jeju, target_date>>
    /\ UNCHANGED <<ovars, cvars>>

\* session.post(api_url, data=post_data) (interactive 121-137,
\* information 91-105)
fetch_post ==
    /\ ppc = "post"
    /\ \E outcome \in Outcomes, doc \in Documents :
        /\ Raises(outcome) => doc = <<>>
        /\ http' = Append(http, Request("POST", "api_url", target_date,
                                         csrf_token(http[Len(http)].token),
                                         outcome, "absent", doc))
        /\ FetchReturn(outcome, doc)
    /\ UNCHANGED <<bot, nsent, escaped>>
    /\ UNCHANGED <<now, date_filter, is_jeju, target_date>>
    /\ UNCHANGED <<ovars, cvars>>

\* requests.get(base_url) (interactive 138-141, information 106-109)
fetch_get ==
    /\ ppc = "fetch"
    /\ ~Truthy(target_date)
    /\ \E outcome \in Outcomes, doc \in Documents :
        /\ Raises(outcome) => doc = <<>>
        /\ http' = Append(http, Request("GET", "base_url", None, "", outcome,
                                         "absent", doc))
        /\ FetchReturn(outcome, doc)
    /\ UNCHANGED <<bot, nsent, escaped>>
    /\ UNCHANGED <<now, date_filter, is_jeju, target_date>>
    /\ UNCHANGED <<ovars, cvars>>

\* "if df is None" (interactive 589, information 378)
df_is_None_never(r) == FALSE

df_is_None(r) == r = "None"

\* the date filters of the requests followed step by step
PipelineFilters ==
    { None, T_today, T_jejuko, <<"0", "9", ".", "3", "0">>,
      <<"2", "0", "2", "5", "-", "0", "9", "-", "2", "4">> }

\* the reports format_smp_data hands to the send: one that fits, and two
\* that are sent in two and in three parts
PipelineMessages ==
    { Join(<<3>>), Join(<<3950, 999>>), Join(<<3950, 3950, 3950>>) }

\* an update reaches a handler of the interactive bot, which calls
\* _send_smp_data(update, date_filter, is_jeju) (557-565)
interactive_request ==
    /\ ppc = "idle"
    /\ \E f \in PipelineFilters, jeju \in BOOLEAN :
        /\ jeju => f \in {None, T_jejuko}
        /\ f = T_jejuko => jeju
        /\ date_filter' = f
        /\ is_jeju' = jeju
    /\ bot' = "interactive"
    /\ ppc' = "status"
    /\ http' = <<>>
    /\ fetched' = "pending"
    /\ picked' = 0
    /\ events' = <<>>
    /\ nsent' = 0
    /\ escaped' = FALSE
    /\ target_date' = None
    /\ message' = <<>>
    /\ parts' = <<>>
    /\ max_length' = 0
    /\ UNCHANGED <<now, ovars>>

\* 569-575: the "looking up" reply, then _parse_date
reply_status ==
    /\ ppc = "status"
    /\ \E ok \in BOOLEAN :
        /\ events' = Append(events, Event("status", ok))
        /\ IF ok
           THEN /\ target_date' = IF Truthy(date_filter)
                                  THEN _parse_date(date_filter, now) ELSE None
                /\ ppc' = IF Truthy(target_date') THEN "edit" ELSE "fetch"
           ELSE /\ target_date' = target_date
                /\ ppc' = "except"
    /\ UNCHANGED <<bot, http, fetched, picked, nsent, escaped>>
    /\ UNCHANGED <<now, date_filter, is_jeju>>
    /\ UNCHANGED <<ovars, cvars>>

\* 578-584: status_msg.edit_text before the dated fetch
edit_status ==
    /\ ppc = "edit"
    /\ \E ok \in BOOLEAN :
        /\ events' = Append(events, Event("edit", ok))
        /\ ppc' = IF ok THEN "fetch" ELSE "except"
    /\ UNCHANGED <<bot, http, fetched, picked, nsent, escaped>>
    /\ UNCHANGED <<now, date_filter, is_jeju, target_date>>
    /\ UNCHANGED <<ovars, cvars>>

\* 589-592: df is None, the failure text replaces the status message
fail_notice ==
    /\ ppc = "fetched"
    /\ bot = "interactive"
    /\ df_is_None(fetched)
    /\ \E ok \in BOOLEAN :
        /\ events' = Append(events, Event("fail_notice", ok))
        /\ ppc' = IF ok THEN "done" ELSE "except"
    /\ UNCHANGED <<bot, http, fetched, picked, nsent, escaped>>
    /\ UNCHANGED <<now, date_filter, is_jeju, target_date>>
    /\ UNCHANGED <<ovars, cvars>>

\* 595-604: format_smp_data, status_msg.delete(), then the split
format_and_split ==
    /\ ppc = "fetched"
    /\ bot = "interactive"
    /\ ~df_is_None(fetched)
    /\ \E msg \in PipelineMessages, ok \in BOOLEAN :
        /\ message' = msg
        /\ IF ok
           THEN /\ max_length' = MaxLength
                /\ parts' = ReplyParts(msg)
                /\ events' = events \o <<Event("format", TRUE),
                                         Event("delete", TRUE)>>
                             \o (IF TextLen(msg) > MaxLength
                                 THEN <<Event("chunk", TRUE)>> ELSE <<>>)
                /\ ppc' = "send"
           ELSE /\ max_length' = max_length
                /\ parts' = parts
                /\ events' = events \o <<Event("format", TRUE),
                                         Event("delete", FALSE)>>
                /\ ppc' = "except"
    /\ UNCHANGED <<bot, http, fetched, picked, nsent, escaped>>
    /\ UNCHANGED <<now, date_filter, is_jeju, target_date>>
    /\ UNCHANGED ovars

\* 605-612: one reply_text of the loop over the parts, or the single reply
reply_part ==
    /\ ppc = "send"
    /\ bot = "interactive"
    /\ \E ok \in BOOLEAN :
        /\ events' = Append(events, Event("part", ok))
        /\ nsent' = IF ok THEN nsent + 1 ELSE nsent
        /\ ppc' = IF ~ok THEN "except"
                  ELSE IF nsent + 1 = Len(parts) THEN "done" ELSE "send"
    /\ UNCHANGED <<bot, http, fetched, picked, escaped>>
    /\ UNCHANGED <<now, date_filter, is_jeju, target_date>>
    /\ UNCHANGED <<ovars, cvars>>

\* 615-620: except Exception, whose reply_text is awaited outside any try
except_reply ==
    /\ ppc = "except"
    /\ bot = "interactive"
    /\ \E ok \in BOOLEAN :
        /\ events' = Append(events, Event("error_notice", ok))
        /\ escaped' = ~ok
    /\ ppc' = "done"
    /\ UNCHANGED <<bot, http, fetched, picked, nsent>>
    /\ UNCHANGED <<now, date_filter, is_jeju, target_date>>
    /\ UNCHANGED <<ovars, cvars>>

\* SMPBot.send_smp_report 351-376: the target date from the weekday
report_start ==
    /\ ppc = "idle"
    /\ bot' = "scheduled"
    /\ date_filter' = None
    /\ is_jeju' = FALSE
    /\ target_date' = IF weekday(now) = 0 THEN strftime_ymd(PrevDay(now))
                      ELSE None
    /\ ppc' = "fetch"
    /\ http' = <<>>
    /\ fetched' = "pending"
    /\ picked' = 0
    /\ events' = <<>>
    /\ nsent' = 0
    /\ escaped' = FALSE
    /\ message' = <<>>
    /\ parts' = <<>>
    /\ max_length' = 0
    /\ UNCHANGED <<now, ovars>>

\* 378-382: df is None, the failure text is sent with send_message
report_fail_notice ==
    /\ ppc = "fetched"
    /\ bot = "scheduled"
    /\ df_is_None(fetched)
    /\ \E ok \in BOOLEAN :
        /\ events' = Append(events, Event("fail_notice", ok))
        /\ ppc' = IF ok THEN "done" ELSE "except"
    /\ UNCHANGED <<bot, http, fetched, picked, nsent, escaped>>
    /\ UNCHANGED <<now, date_filter, is_jeju, target_date>>
    /\ UNCHANGED <<ovars, cvars>>

\* 384-400 and TelegramBot.send_message 286-293: the report is formatted
\* and, when it is too long, cut while it is sent
report_format ==
    /\ ppc = "fetched"
    /\ bot = "scheduled"
    /\ ~df_is_None(fetched)
    /\ \E msg \in PipelineMessages :
        /\ message' = msg
        /\ max_length' = info_MaxLength
        /\ parts' = info_SentParts(msg)
        /\ events' = events \o <<Event("format", TRUE)>>
                     \o (IF TextLen(msg) > info_MaxLength
                         THEN <<Event("chunk", TRUE)>> ELSE <<>>)
    /\ ppc' = "send"
    /\ UNCHANGED <<bot, http, fetched, picked, nsent, escaped>>
    /\ UNCHANGED <<now, date_filter, is_jeju, target_date>>
    /\ UNCHANGED ovars

\* TelegramBot.send_message 297-305, 312-325: one Bot.send_message; a part
\* sent inside the loop is followed by the sleep
send_part ==
    /\ ppc = "send"
    /\ bot = "scheduled"
    /\ \E ok \in BOOLEAN :
        /\ events' = Append(events, Event("part", ok))
        /\ nsent' = IF ok THEN nsent + 1 ELSE nsent
        /\ ppc' = IF ~ok THEN "except"
                  ELSE IF nsent + 1 = Len(parts) THEN "done" ELSE "sleep"
    /\ UNCHANGED <<bot, http, fetched, picked, escaped>>
    /\ UNCHANGED <<now, date_filter, is_jeju, target_date>>
    /\ UNCHANGED <<ovars, cvars>>

\* TelegramBot.send_message 307: await asyncio.sleep(1)
sleep ==
    /\ ppc = "sleep"
    /\ events' = Append(events, Event("sleep", TRUE))
    /\ ppc' = "send"
    /\ UNCHANGED <<bot, http, fetched, picked, nsent, escaped>>
    /\ UNCHANGED <<now, date_filter, is_jeju, target_date>>
    /\ UNCHANGED <<ovars, cvars>>

\* 406-412: except Exception, whose send_message is inside try / except:
report_except ==
    /\ ppc = "except"
    /\ bot = "scheduled"
    /\ \E ok \in BOOLEAN :
        events' = Append(events, Event("error_notice", ok))
    /\ ppc' = "done"
    /\ UNCHANGED <<bot, http, fetched, picked, nsent, escaped>>
    /\ UNCHANGED <<now, date_filter, is_jeju, target_date>>
    /\ UNCHANGED <<ovars, cvars>>

\* the handler, or the job, has returned; the process waits for the next
\* update or trigger
pipeline_return ==
    /\ ppc = "done"
    /\ ppc' = "idle"
    /\ UNCHANGED <<bot, http, fetched, picked, events, nsent, escaped>>
    /\ UNCHANGED <<now, date_filter, is_jeju, target_date>>
    /\ UNCHANGED <<ovars, cvars>>

InitPipeline ==
    /\ df = NoneDf
    /\ now \in Todays
    /\ pc = "off"
    /\ handler = "none"
    /\ date_filter = None
    /\ is_jeju = FALSE
    /\ target_date = None
    /\ report = <<>>
    /\ message = <<>>
    /\ max_length = 0
    /\ parts = <<>>
    /\ cpc = "off"
    /\ bot = "none"
    /\ ppc = "idle"
    /\ http = <<>>
    /\ fetched = "pending"
    /\ picked = 0
    /\ events = <<>>
    /\ nsent = 0
    /\ escaped = FALSE
    /\ program = "none"
    /\ env_token = "<unset>"
    /\ env_chat = "<unset>"
    /\ mpc = "off"
    /\ constructed = FALSE
    /\ running = 0
    /\ nruns = 0
    /\ jobs = {}
    /\ due = FALSE
    /\ flask = "off"
    /\ health = [path |-> "none", status |-> "none"]

NextPipeline ==
    \/ interactive_request
    \/ reply_status
    \/ edit_status
    \/ fetch_token_get
    \/ fetch_post
    \/ fetch_get
    \/ fail_notice
    \/ format_and_split
    \/ reply_part
    \/ except_reply
    \/ report_start
    \/ report_fail_notice
    \/ report_format
    \/ send_part
    \/ sleep
    \/ report_except
    \/ pipeline_return

SpecPipeline == InitPipeline /\ [][NextPipeline]_vars

(***************************************************************************)
(* Claims on the requests of one fetch and on its return                   *)
(***************************************************************************)
\* fetch_smp_data has returned
Returned == fetched # "pending"

\* C11: one call of fetch_smp_data issues, without a target date, exactly
\* one GET and no POST; with a target date, one GET and after it at most one
\* POST, which carries issue_date and the token of the page (empty when the
\* page has no token field); a POST never comes before the GET, and nothing
\* is requested again after a request failed.
C11_RequestsOfOneFetch ==
    /\ Len(http) <= 2
    /\ \A i \in 1..Len(http) : Raises(http[i].outcome) => i = Len(http)
    /\ ~Truthy(target_date) =>
         /\ Len(http) <= 1
         /\ \A i \in 1..Len(http) : http[i].method = "GET"
         /\ Returned => Len(http) = 1
    /\ Truthy(target_date) =>
         /\ Returned => Len(http) >= 1
         /\ Len(http) >= 1 => http[1].method = "GET"
         /\ Len(http) = 2 =>
              /\ http[2].method = "POST"
              /\ http[2].issue_date = target_date
              /\ http[2].csrf = IF http[1].token = "present"
                                THEN TokenValue ELSE ""

C11_Witness ==
    /\ Returned
    /\ Truthy(target_date)
    /\ Len(http) = 2
    /\ http[1].token = "present"
    /\ http[2].method = "POST"
    /\ http[2].csrf = TokenValue

\* the handler's except block is entered only after the chat transport
\* raised: fetch_smp_data lets no exception out
NothingEscapesFetch ==
    ppc = "except" => \E i \in 1..Len(events) : ~events[i].ok

\* C12: if any request of fetch_smp_data (the token GET, the plain
\* GET or the dated POST) ends in a non-2xx status, a timeout or a
\* connection error, fetch_smp_data returns None and no exception escapes.
C12_AnyFailureYieldsNone ==
    /\ (Returned /\ \E i \in 1..Len(http) : http[i].outcome # "200")
           => fetched = "None"
    /\ NothingEscapesFetch

\* C13: the table is the first one whose class has the marker; when no table
\* has it and the document holds a table, the first table is taken and
\* returned; the lookup fails only when the document holds no table.
C13_FallsBackToFirstTable ==
    (/\ Returned
     /\ Len(http) >= 1
     /\ http[Len(http)].outcome = "200")
        => LET doc == http[Len(http)].doc
               table == IF find_conTable(doc) # 0 THEN find_conTable(doc)
                        ELSE find_table(doc)
           IN  /\ picked = table
               /\ (table # 0 /\ doc[table].readable) => fetched = "df"
               /\ table = 0 <=> doc = <<>>

(***************************************************************************)
(* Claims on the steps of the pipeline                                     *)
(***************************************************************************)
\* the operations of the log
Ops == { events[i].op : i \in 1..Len(events) }

\* the calls of the chat transport that were accepted
Delivered == { events[i].op : i \in { j \in 1..Len(events) : events[j].ok } }

\* the response fetch_smp_data took the table from was an HTTP 500
Fetch500 ==
    /\ Returned
    /\ Len(http) >= 1
    /\ http[Len(http)].outcome = "500"

\* C14: when the fetch response is an HTTP 500, the pipeline hands the
\* failure text to the chat (delivered whenever the chat accepts it, and
\* followed by the handler's error text when it does not), and no table is
\* looked up, no report formatted, cut into parts or sent, on the interactive
\* and on the scheduled path.
C14_FailureStopsPipeline ==
    Fetch500 =>
        /\ Ops \cap {"extract", "format", "delete", "chunk", "part", "sleep"}
              = {}
        /\ nsent = 0
        /\ ppc \in {"done", "idle"} =>
              /\ "fail_notice" \in Ops
              /\ "fail_notice" \in Delivered \/ "error_notice" \in Ops

C14_Witness ==
    /\ Fetch500
    /\ ppc = "done"
    /\ "fail_notice" \in Delivered
    /\ http[Len(http)].doc # <<>>

\* C15: in a send of several parts, a delay lies between the delivery of
\* any two consecutive parts, on the interactive and on the scheduled path.
C15_DelayBetweenParts ==
    \A i \in 1..(Len(events) - 1) :
        ~(/\ events[i].op = "part" /\ events[i].ok
          /\ events[i + 1].op = "part" /\ events[i + 1].ok)

\* C16: whatever fails, the send of the failure text included, no exception
\* leaves _send_smp_data or send_smp_report.
C16_NoExceptionEscapes == ~escaped

(***************************************************************************)
(* The processes: main() of the two scripts, with the main thread, the     *)
(* schedule it serves and the Flask thread of the scheduled bot. A run of  *)
(* send_smp_report is followed from its start to its end only.             *)
(***************************************************************************)
\* os.getenv finds no variable of that name
Unset == "<unset>"

TokenPlaceholder == "YOUR_BOT_TOKEN_HERE"

ChatPlaceholder == "YOUR_CHAT_ID_HERE"

\* the values the environment may hold
Tokens == {Unset, "", TokenPlaceholder, "123:abc"}

Chats == {Unset, ChatPlaceholder, "-1001"}

\* most runs of send_smp_report followed in one life of the process
MaxRuns == 3

\* os.getenv(name, default)
getenv(value, default) == IF value = Unset THEN default ELSE value

\* the test of main(): interactive 672, information 475
ConfigRefused(prog, token, chat) ==
    IF prog = "interactive"
    THEN LET t == getenv(token, Unset)
         IN  t = Unset \/ t = "" \/ t = TokenPlaceholder
    ELSE \/ getenv(token, TokenPlaceholder) = TokenPlaceholder
         \/ getenv(chat, ChatPlaceholder) = ChatPlaceholder

\* run_scheduler 455-460: schedule.run_pending() is called by the main
\* thread between two jobs, never while a job is being run
SchedulerReady_any(p) == p \in {"scheduler", "job_run"}

SchedulerReady(p) == p = "scheduler"

\* the answer to a request of the health server: app.run listens only once
\* the Flask thread runs (448-452)
Answer(f) == IF f = "serving" THEN "200" ELSE "refused"

\* main() has passed its test and has not returned
Up == mpc \in {"construct", "run", "polling", "first_run", "startup_run",
               "register", "flask_start", "scheduler", "job_run"}

\* what is left alone by every step of the processes
qvars == <<fvars, cvars, pvars>>

\* main(): interactive 665-676, information 463-487
main_check ==
    /\ mpc = "start"
    /\ mpc' = IF ConfigRefused(program, env_token, env_chat)
              THEN "refused" ELSE "construct"
    /\ UNCHANGED <<program, env_token, env_chat, constructed, running, nruns,
                   jobs, due, flask, health>>
    /\ UNCHANGED qvars

\* InteractiveSMPBot(token) inside the try (interactive 679-681), and
\* SMPBot(TOKEN, CHAT_ID) outside any try (information 491); telegram's
\* Bot may reject an empty token
construct_bot ==
    /\ mpc = "construct"
    /\ \E raises \in BOOLEAN :
        /\ raises => env_token = ""
        /\ constructed' = ~raises
        /\ mpc' = IF raises
                  THEN (IF program = "interactive" THEN "failed" ELSE "raised")
                  ELSE (IF program = "interactive" THEN "run" ELSE "first_run")
    /\ UNCHANGED <<program, env_token, env_chat, running, nruns, jobs, due,
                   flask, health>>
    /\ UNCHANGED qvars

\* bot.run() (interactive 649-662, 682): run_polling
run_polling ==
    /\ mpc = "run"
    /\ mpc' = "polling"
    /\ UNCHANGED <<program, env_token, env_chat, constructed, running, nruns,
                   jobs, due, flask, health>>
    /\ UNCHANGED qvars

\* interactive 684-689: run_polling ends by Ctrl+C or by an exception
polling_ends ==
    /\ mpc = "polling"
    /\ \E e \in {"KeyboardInterrupt", "Exception"} :
        mpc' = IF e = "Exception" THEN "failed" ELSE "stopped"
    /\ UNCHANGED <<program, env_token, env_chat, constructed, running, nruns,
                   jobs, due, flask, health>>
    /\ UNCHANGED qvars

\* information 498: asyncio.run(bot.send_smp_report()) is entered
startup_run_begin ==
    /\ mpc = "first_run"
    /\ running' = running + 1
    /\ nruns' = nruns + 1
    /\ mpc' = "startup_run"
    /\ UNCHANGED <<program, env_token, env_chat, constructed, jobs, due,
                   flask, health>>
    /\ UNCHANGED qvars

\* information 498-499: asyncio.run returns
startup_run_end ==
    /\ mpc = "startup_run"
    /\ running' = running - 1
    /\ mpc' = "register"
    /\ UNCHANGED <<program, env_token, env_chat, constructed, nruns, jobs,
                   due, flask, health>>
    /\ UNCHANGED qvars

\* information 502-511: the Monday job and the hourly keep_alive
register_schedules ==
    /\ mpc = "register"
    /\ jobs' = {"monday 09:00 job_wrapper", "hourly keep_alive"}
    /\ mpc' = "flask_start"
    /\ UNCHANGED <<program, env_token, env_chat, constructed, running, nruns,
                   due, flask, health>>
    /\ UNCHANGED qvars

\* information 526-535: the Flask thread is started, the main thread
\* enters run_scheduler
start_flask_thread ==
    /\ mpc = "flask_start"
    /\ flask' = "starting"
    /\ mpc' = "scheduler"
    /\ UNCHANGED <<program, env_token, env_chat, constructed, running, nruns,
                   jobs, due, health>>
    /\ UNCHANGED qvars

\* run_flask_app 448-452, in the Flask thread: app.run listens
run_flask_app ==
    /\ flask = "starting"
    /\ flask' = "serving"
    /\ UNCHANGED <<program, env_token, env_chat, mpc, constructed, running,
                   nruns, jobs, due, health>>
    /\ UNCHANGED qvars

\* the clock reaches Monday 09:00: the job registered at 502 becomes due
monday_0900 ==
    /\ "monday 09:00 job_wrapper" \in jobs
    /\ mpc \in {"flask_start", "scheduler", "job_run"}
    /\ ~due
    /\ nruns < MaxRuns
    /\ due' = TRUE
    /\ UNCHANGED <<program, env_token, env_chat, mpc, constructed, running,
                   nruns, jobs, flask, health>>
    /\ UNCHANGED qvars

\* run_scheduler 457: run_pending calls job_wrapper (420-423), which calls
\* run_scheduled_task (414-417): asyncio.run(send_smp_report()) is entered
run_pending ==
    /\ SchedulerReady(mpc)
    /\ due
    /\ due' = FALSE
    /\ running' = running + 1
    /\ nruns' = nruns + 1
    /\ mpc' = "job_run"
    /\ UNCHANGED <<program, env_token, env_chat, constructed, jobs, flask,
                   health>>
    /\ UNCHANGED qvars

\* 417: asyncio.run returns, run_pending returns to the loop (458-460)
job_end ==
    /\ mpc = "job_run"
    /\ running' = running - 1
    /\ mpc' = IF running' = 0 THEN "scheduler" ELSE "job_run"
    /\ UNCHANGED <<program, env_token, env_chat, constructed, nruns, jobs,
                   due, flask, health>>
    /\ UNCHANGED qvars

\* information 536-539: Ctrl+C ends run_scheduler, and with the process
\* its daemon thread
keyboard_interrupt ==
    /\ mpc = "scheduler"
    /\ mpc' = "stopped"
    /\ flask' = "off"
    /\ UNCHANGED <<program, env_token, env_chat, constructed, running, nruns,
                   jobs, due, health>>
    /\ UNCHANGED qvars

\* a GET of /health (441-445) while the process is up
health_request ==
    /\ program = "scheduled"
    /\ Up
    /\ health' = [path |-> "/health", status |-> Answer(flask)]
    /\ UNCHANGED <<program, env_token, env_chat, mpc, constructed, running,
                   nruns, jobs, due, flask>>
    /\ UNCHANGED qvars

\* a GET of / (427-438) while the process is up
home_request ==
    /\ program = "scheduled"
    /\ Up
    /\ health' = [path |-> "/", status |-> Answer(flask)]
    /\ UNCHANGED <<program, env_token, env_chat, mpc, constructed, running,
                   nruns, jobs, due, flask>>
    /\ UNCHANGED qvars

InitMain ==
    /\ df = NoneDf
    /\ now = [y |-> 2025, m |-> 9, d |-> 29]
    /\ pc = "off"
    /\ handler = "none"
    /\ date_filter = None
    /\ is_jeju = FALSE
    /\ target_date = None
    /\ report = <<>>
    /\ message = <<>>
    /\ max_length = 0
    /\ parts = <<>>
    /\ cpc = "off"
    /\ bot = "none"
    /\ ppc = "off"
    /\ http = <<>>
    /\ fetched = "pending"
    /\ picked = 0
    /\ events = <<>>
    /\ nsent = 0
    /\ escaped = FALSE
    /\ program \in {"interactive", "scheduled"}
    /\ env_token \in Tokens
    /\ env_chat \in Chats
    /\ mpc = "start"
    /\ constructed = FALSE
    /\ running = 0
    /\ nruns = 0
    /\ jobs = {}
    /\ due = FALSE
    /\ flask = "off"
    /\ health = [path |-> "none", status |-> "none"]

NextMain ==
    \/ main_check
    \/ construct_bot
    \/ run_polling
    \/ polling_ends
    \/ startup_run_begin
    \/ startup_run_end
    \/ register_schedules
    \/ start_flask_thread
    \/ run_flask_app
    \/ monday_0900
    \/ run_pending
    \/ job_end
    \/ keyboard_interrupt
    \/ health_request
    \/ home_request

SpecMain == InitMain /\ [][NextMain]_vars

(***************************************************************************)
(* Claims on the processes                                                 *)
(***************************************************************************)
\* no credential: no variable, an empty one, or the placeholder
CredentialMissing == env_token \in {Unset, "", TokenPlaceholder}

\* the configuration main() asks for is there: the token and, for the
\* scheduled bot, the chat id
ConfigComplete ==
    /\ ~CredentialMissing
    /\ program = "scheduled" => env_chat \notin {Unset, ChatPlaceholder}

\* C17: when the bot credential is missing at startup, main() returns
\* without constructing a bot, fetching, sending, registering a schedule or
\* starting polling or the health server, and without raising; when the
\* credential is present the process proceeds to run.
C17_MissingCredentialStops ==
    /\ CredentialMissing =>
         /\ mpc \in {"start", "refused"}
         /\ ~constructed
         /\ nruns = 0
         /\ jobs = {}
         /\ flask = "off"
    /\ ConfigComplete => mpc # "refused"

\* C18: whenever the process of the scheduled bot is up with a valid
\* configuration, the start-up run of the report included, a request to the
\* health endpoint is answered 200.
C18_HealthAlways200 ==
    (program = "scheduled" /\ ConfigComplete /\ constructed /\ Up)
        => health.status # "refused"

\* C20: in the scheduled deployment at most one send_smp_report is in
\* progress at any time: the start-up run ends before any schedule is
\* registered, a Monday trigger that fires during a run starts no second
\* run beside it, and only the main thread, never a request of the health
\* server, starts a run.
C20_AtMostOneRun ==
    program = "scheduled" =>
        /\ running <= 1
        /\ running = 1 <=> mpc \in {"startup_run", "job_run"}
        /\ mpc \in {"construct", "first_run", "startup_run"} => jobs = {}
        /\ (due /\ mpc = "job_run") => running = 1

C20_Witness ==
    /\ program = "scheduled"
    /\ mpc = "job_run"
    /\ due
    /\ running = 1
    /\ nruns = 2
    /\ health.status = "200"

(***************************************************************************)
(* Claim on the thresholds the /help text states                           *)
(***************************************************************************)
\* the marker help_command (447-450) promises for a numeric value:
\* red for 120 or more, yellow for 90-120, green below 90
HelpMarker(v) ==
    IF v >= 120 THEN "high"
    ELSE IF v >= 90 THEN "medium"
    ELSE "low"

\* C19: the interactive bot marks an hourly value high when it is 120 or
\* more, medium when it is between 90 and 120, low when it is below 90, as
\* its /help text states; a value of exactly 120 is marked high.
C19_MarkersAsHelpStates ==
    (Formatted /\ Interactive) =>
        \A i \in 1..Len(report) :
            (report[i].kind = "hour" /\ float(report[i].value).ok)
                => report[i].marker = HelpMarker(float(report[i].value).v)

(***************************************************************************)
(* Claim on the two island requests                                        *)
(***************************************************************************)
\* the request was served by /jeju, or by the typed island keyword
ByJejuCommand == pc = "replied" /\ handler = "jeju_command"

ByJejuKeyword == pc = "replied" /\ handler = "handle_message" /\ is_jeju

\* C21: the /jeju command and the typed island keyword are the same
\* request: for the same fetched island table both fetch the island region
\* without a target date, and both show the same date columns.
C21_JejuCommandAsKeyword ==
    /\ (ByJejuCommand \/ ByJejuKeyword) => (is_jeju /\ target_date = None)
    /\ (ByJejuCommand /\ ~df.is_none) =>
          ShownColumns(report)
             = ShownColumns(format_smp_data(df, None, TRUE))
    /\ (ByJejuKeyword /\ ~df.is_none) =>
          ShownColumns(report)
             = ShownColumns(format_smp_data(df, T_jejuko, TRUE))

=============================================================================
